---- MODULE Spec2Model ----
(***************************************************************************)
(* Model of gen-linkml-profile: SchemaProfiler (schema_profiler.py) and    *)
(* ProfilingLinkmlGenerator (__main__.py).                                 *)
(*                                                                         *)
(* A schema is a record [classes, types, enums]; classes maps a class name *)
(* to [is_a, attributes], attributes being the ordered attribute mapping   *)
(* (a sequence of slot definitions with unique names).                     *)
(***************************************************************************)
EXTENDS Integers, Sequences, FiniteSets, TLC

\* ------------------------------------------------------------------ bounds
MaxAttrs == 2        \* total number of attributes in an input schema
MaxRoots == 2        \* number of requested class names
MaxRuns == 2         \* number of profile() calls in one behaviour
MaxDeepAttrs == 4    \* total number of attributes in a schema of DeepSchemas
MaxPathAttrs == 2    \* total number of attributes in a schema of PathSchemas
MaxWalkAttrs == 3    \* total number of attributes in a schema of WalkSchemas
MaxDepth == 5        \* the interpreter's limit on nested _class_instance calls
MaxCalls == 2        \* number of example() calls on one SchemaProfiler
MaxMergeAttrs == 2   \* total number of attributes in a schema of MergeSchemas

\* ------------------------------------------------------------ name universe
None == "None"
ClassNames == {"A", "B"}
TypeNames == {"T"}
EnumNames == {"E"}
Absent == "Zed"                      \* a name that no schema element has
RangeNames == ClassNames \cup TypeNames \cup EnumNames \cup {Absent}
RootNames == ClassNames \cup {Absent}
AttrNames == <<"x", "y", "z", "w", "v">>   \* attribute name by position

Range(seq) == {seq[k] : k \in DOMAIN seq}

NoDup(seq) == \A j, k \in DOMAIN seq : j # k => seq[j] # seq[k]

\* ------------------------------------------------------------ input schemas
\* Slot definitions: range and the required flag.  Only class-valued slots
\* vary in the flag; the profiler reads it only for those.
SlotChoices ==
    {[range |-> r, required |-> q, identifier |-> FALSE] :
        r \in ClassNames, q \in BOOLEAN}
    \cup {[range |-> r, required |-> FALSE, identifier |-> FALSE] :
            r \in RangeNames \ ClassNames}

\* The k-th slot definition of a mapping gets the k-th attribute name.
Named(choices) ==
    [k \in DOMAIN choices |-> [name |-> AttrNames[k]] @@ choices[k]]

\* Attribute mappings of exactly n attributes, drawn from a set of choices.
AttrsOf(choices, n) == {Named(cs) : cs \in [1..n -> choices]}

\* Every way to give the classes of cls attribute mappings with at most
\* budget attributes in total.
RECURSIVE AttrMaps(_, _, _)
AttrMaps(choices, cls, budget) ==
    IF cls = {} THEN {<<>>}
    ELSE LET c == CHOOSE c \in cls : TRUE
         IN UNION {{(c :> a) @@ f :
                        a \in AttrsOf(choices, k),
                        f \in AttrMaps(choices, cls \ {c}, budget - k)} :
                   k \in 0..budget}

SchemasOf(choices, parents, cls, budget) ==
    {[classes |-> [c \in cls |-> [is_a |-> p[c], attributes |-> a[c]]],
      types |-> TypeNames, enums |-> EnumNames] :
        p \in parents, a \in AttrMaps(choices, cls, budget)}

\* is_a is single inheritance, acyclic, and names an existing class.
Parents == {[A |-> None, B |-> None], [A |-> None, B |-> "A"]}

Schemas == SchemasOf(SlotChoices, Parents, ClassNames, MaxAttrs)

\* Deeper schemas for profiling the profiler's own output: more attributes,
\* none of them required.
PlainChoices ==
    {[range |-> r, required |-> FALSE, identifier |-> FALSE] : r \in RangeNames}

DeepSchemas == SchemasOf(PlainChoices, Parents, ClassNames, MaxDeepAttrs)

RootSeqs ==
    UNION {{r \in [1..k -> RootNames] : NoDup(r)} : k \in 0..MaxRoots}

\* ------------------------------------------------------------ SchemaView
\* SchemaView.get_element(name): class, type or enum of that name, or none.
ElementKind(v, name) ==
    IF name \in DOMAIN v.classes THEN "class"
    ELSE IF name \in v.types THEN "type"
    ELSE IF name \in v.enums THEN "enum"
    ELSE "none"

\* Mutant: the ancestors of a class are the class alone.
ClassAncestorsSelf(v, c) ==
    [raised |-> c \notin DOMAIN v.classes, names |-> <<c>>]

\* SchemaView.class_ancestors(c): c followed by its is_a chain; raises
\* ValueError when c, or a class named on the chain, is not in the schema.
RECURSIVE AncWalk(_, _, _)
AncWalk(v, c, acc) ==
    IF c \notin DOMAIN v.classes THEN [raised |-> TRUE, names |-> acc]
    ELSE LET p == v.classes[c].is_a
         IN IF p = None \/ p \in Range(acc)
            THEN [raised |-> FALSE, names |-> acc]
            ELSE AncWalk(v, p, Append(acc, p))

ClassAncestors(v, c) == AncWalk(v, c, <<c>>)

\* ------------------------------------------------------- SchemaProfiler
VARIABLES
    schema,     \* self.schema: the loaded SchemaDefinition
    view,       \* self.view: SchemaView over a deepcopy of the loaded schema
    roots,      \* the c_names argument of __init__
    c_names,    \* self.c_names
    builder,    \* the ProfilingSchemaBuilder of the running profile() call
    idx,        \* position of profile()'s loop over self.c_names
    stack,      \* pending recursive _profile calls, innermost frame last
    failed,     \* classes whose _profile raised the invalid-range error
    phase,      \* "ready" | "run" | "done"
    outs,       \* schemas returned by the profile() calls on this object
    origin,     \* the schema this object was loaded from
    reloaded,   \* TRUE when origin is the output of an earlier profile()
    runs        \* number of profile() calls so far

profVars == <<schema, view, roots, c_names, builder, idx, stack, failed,
              phase, outs, origin, reloaded, runs>>

\* ---------------------------------------------- ProfilingLinkmlGenerator
VARIABLES
    g_schema,   \* self.schemaview.schema
    g_src,      \* the schema the generator was constructed from
    g_names,    \* the class_names argument of profile()
    g_dp,       \* the data_product argument of profile()
    g_todo,     \* ancestors that profile() has still to process
    g_found,    \* found
    g_phase     \* "idle" | "ready" | "found" | "clean" | "done" | "error"

genVars == <<g_schema, g_src, g_names, g_dp, g_todo, g_found, g_phase>>

\* ------------------------------- state of SchemaProfiler.shortest_path
VARIABLES
    p_view,     \* self.view of the profiler whose shortest_path is called
    p_src,      \* the source argument
    p_dst,      \* the destination argument
    p_graph,    \* G: [nodes, edges], an edge being a pair <<from, to>>
    p_seen,     \* seen of the breadth-first search: node -> level
    p_pred,     \* pred of the search: node -> set of predecessors
    p_front,    \* nextlevel of the search
    p_level,    \* level of the search
    p_paths,    \* the paths enumerated so far
    p_phase,    \* "idle" | "ready" | "graph" | "search" | "done" | "error"
    p_error     \* the exception that ended the call, None if none

pathVars == <<p_view, p_src, p_dst, p_graph, p_seen, p_pred, p_front,
              p_level, p_paths, p_phase, p_error>>

\* ------------------- state of SchemaProfiler.example and _class_instance
VARIABLES
    w_view,     \* self.view of the profiler whose example() is called
    w_root,     \* the c_name argument of example()
    w_skip,     \* the skip argument of example()
    w_stack,    \* the active calls of _class_instance, the outermost first
    w_uuid,     \* self._uuid: identifier -> placeholder
    w_made,     \* number of placeholders that uuid4 has produced
    w_mark,     \* w_made at the start of the current example() call
    w_result,   \* what the last _class_instance(c_name) returned
    w_calls,    \* number of example() calls so far
    w_phase,    \* "idle" | "ready" | "walk" | "done" | "error"
    w_error     \* the exception that ended the call, None if none

walkVars == <<w_view, w_root, w_skip, w_stack, w_uuid, w_made, w_mark,
              w_result, w_calls, w_phase, w_error>>

\* ------------------------------------------ state of SchemaProfiler.merge
\* A class object holds a reference to its attribute mapping: an address of
\* the heap.  The other categories map a name to a value.
VARIABLES
    m_dest,     \* dest = self.schema: [classes, types]
    m_src,      \* schema, loaded from from_schema: [classes, types]
    m_heap,     \* address -> attribute mapping (attribute name -> slot)
    m_clobber,  \* the clobber argument
    m_dest0,    \* the content of dest when merge was called
    m_src0,     \* the content of schema when merge was called
    m_phase     \* "idle" | "ready" | "classes" | "done"

mergeVars == <<m_dest, m_src, m_heap, m_clobber, m_dest0, m_src0, m_phase>>

vars == <<profVars, genVars, pathVars, walkVars, mergeVars>>

exceptProf == <<genVars, pathVars, walkVars, mergeVars>>
exceptGen == <<profVars, pathVars, walkVars, mergeVars>>
exceptPath == <<profVars, genVars, walkVars, mergeVars>>
exceptWalk == <<profVars, genVars, pathVars, mergeVars>>
exceptMerge == <<profVars, genVars, pathVars, walkVars>>

\* No merge call takes part in the behaviour.
MergeIdle ==
    /\ m_dest = None
    /\ m_src = None
    /\ m_heap = <<>>
    /\ m_clobber = FALSE
    /\ m_dest0 = None
    /\ m_src0 = None
    /\ m_phase = "idle"

\* No example() call takes part in the behaviour.
WalkIdle ==
    /\ w_view = None
    /\ w_root = None
    /\ w_skip = FALSE
    /\ w_stack = <<>>
    /\ w_uuid = <<>>
    /\ w_made = 0
    /\ w_mark = 0
    /\ w_result = <<>>
    /\ w_calls = 0
    /\ w_phase = "idle"
    /\ w_error = None

\* No shortest_path call takes part in the behaviour.
PathIdle ==
    /\ p_view = None
    /\ p_src = None
    /\ p_dst = None
    /\ p_graph = None
    /\ p_seen = <<>>
    /\ p_pred = <<>>
    /\ p_front = {}
    /\ p_level = 0
    /\ p_paths = {}
    /\ p_phase = "idle"
    /\ p_error = None

\* __init__, lines 63-73: ancestors of every requested name, in order,
\* without duplicates; a name whose lookup raises contributes nothing.
RECURSIVE AppendNew(_, _)
AppendNew(acc, names) ==
    IF names = <<>> THEN acc
    ELSE AppendNew(IF Head(names) \in Range(acc) THEN acc
                   ELSE Append(acc, Head(names)), Tail(names))

\* Mutant: the try encloses the whole loop, the first unknown name ends it.
RECURSIVE InitCNamesAbort(_, _, _)
InitCNamesAbort(v, rs, acc) ==
    IF rs = <<>> THEN acc
    ELSE LET anc == ClassAncestors(v, Head(rs))
         IN IF anc.raised THEN acc
            ELSE InitCNamesAbort(v, Tail(rs), AppendNew(acc, anc.names))

RECURSIVE InitCNames(_, _, _)
InitCNames(v, rs, acc) ==
    IF rs = <<>> THEN acc
    ELSE LET anc == ClassAncestors(v, Head(rs))
         IN InitCNames(v, Tail(rs),
                       IF anc.raised THEN acc ELSE AppendNew(acc, anc.names))

EmptyBuilder == [classes |-> <<>>, types |-> <<>>, enums |-> <<>>]

HasClass(b, n) == n \in Range(b.classes)

\* Mutant: the membership test for types is lost.
HasTypeNever(b, n) == FALSE

HasType(b, n) == n \in Range(b.types)
HasEnum(b, n) == n \in Range(b.enums)

\* _profile, lines 132-133: position of the first attribute whose range is no
\* schema element (0 when every range resolves).
FirstInvalid(attrs, v) ==
    IF \E k \in DOMAIN attrs : ElementKind(v, attrs[k].range) = "none"
    THEN CHOOSE k \in DOMAIN attrs :
            /\ ElementKind(v, attrs[k].range) = "none"
            /\ \A j \in 1..(k - 1) : ElementKind(v, attrs[j].range) # "none"
    ELSE 0

\* Mutant: only optional slots are skipped, required ones are followed.
SkippedOptional(s_def, v, cn) ==
    /\ s_def.range \in DOMAIN v.classes
    /\ s_def.range \notin Range(cn)
    /\ ~s_def.required

\* _profile, lines 135-139: a class-valued slot is skipped when its range was
\* not requested, whether or not the slot is required.
Skipped(s_def, v, cn) ==
    /\ s_def.range \in DOMAIN v.classes
    /\ s_def.range \notin Range(cn)

\* _profile, lines 128-140: the attributes that are kept.
Kept(attrs, v, cn) == SelectSeq(attrs, LAMBDA s : ~Skipped(s, v, cn))

\* Mutant: the class is pruned in place while its attributes are walked, so
\* a raise leaves the attributes seen so far pruned and the rest dropped.
AttrsAfterInPlace(attrs, v, cn) ==
    IF FirstInvalid(attrs, v) # 0
    THEN Kept(SubSeq(attrs, 1, FirstInvalid(attrs, v) - 1), v, cn)
    ELSE Kept(attrs, v, cn)

\* _profile, lines 129-141: the attributes of the class object after its
\* body ran; the raise on line 133 leaves before the assignment on line 141.
AttrsAfter(attrs, v, cn) ==
    IF FirstInvalid(attrs, v) # 0 THEN attrs ELSE Kept(attrs, v, cn)

\* One call of _profile(name, builder), up to its loop of recursive calls.
\* Result: the builder, self.schema, the ranges its loop will recurse into,
\* and whether the call raised.
CallProfile(name, b, s, v, cn) ==
    LET kind == ElementKind(v, name)
        same == [b |-> b, s |-> s, frame |-> <<>>, raised |-> FALSE]
    IN  IF kind = "class" THEN
            IF HasClass(b, name) THEN same
            ELSE LET attrs == s.classes[name].attributes
                 IN [b |-> [b EXCEPT !.classes = Append(@, name)],
                     s |-> [s EXCEPT !.classes[name].attributes =
                                        AttrsAfter(attrs, v, cn)],
                     frame |-> IF FirstInvalid(attrs, v) # 0 THEN <<>>
                               ELSE [k \in DOMAIN Kept(attrs, v, cn) |->
                                        Kept(attrs, v, cn)[k].range],
                     raised |-> FirstInvalid(attrs, v) # 0]
        ELSE IF kind = "type" THEN
            IF HasType(b, name) THEN same
            ELSE [same EXCEPT !.b = [b EXCEPT !.types = Append(@, name)]]
        ELSE IF kind = "enum" THEN
            IF HasEnum(b, name) THEN same
            ELSE [same EXCEPT !.b = [b EXCEPT !.enums = Append(@, name)]]
        ELSE same

\* Frames whose loop is exhausted return at once.
RECURSIVE Unwind(_)
Unwind(st) ==
    IF st # <<>> /\ st[Len(st)] = <<>> THEN Unwind(SubSeq(st, 1, Len(st) - 1))
    ELSE st

\* builder.schema as returned by profile(): the builder holds the class
\* objects of self.schema themselves (add_class stores the reference).
Returned(b, s) ==
    [classes |-> [c \in Range(b.classes) |-> s.classes[c]],
     types |-> Range(b.types), enums |-> Range(b.enums)]

\* No generator takes part in a behaviour of the profiler.
GenIdle ==
    /\ g_schema = None
    /\ g_src = None
    /\ g_names = <<>>
    /\ g_dp = FALSE
    /\ g_todo = {}
    /\ g_found = {}
    /\ g_phase = "idle"

\* A SchemaProfiler constructed on one of the schemas of S.
ProfInit(S) ==
    /\ \E s \in S, r \in RootSeqs :
          /\ schema = s
          /\ view = s
          /\ origin = s
          /\ roots = r
          /\ c_names = InitCNames(s, r, <<>>)
    /\ reloaded = FALSE
    /\ builder = EmptyBuilder
    /\ idx = 1
    /\ stack = <<>>
    /\ failed = {}
    /\ phase = "ready"
    /\ outs = <<>>
    /\ runs = 0

\* profile(), lines 163-164.
ProfileStart ==
    /\ phase \in {"ready", "done"}
    /\ runs < MaxRuns
    /\ builder' = EmptyBuilder
    /\ idx' = 1
    /\ stack' = <<>>
    /\ failed' = {}
    /\ phase' = "run"
    /\ runs' = runs + 1
    /\ UNCHANGED <<schema, view, roots, c_names, outs, origin, reloaded>>
    /\ UNCHANGED exceptProf

\* The effect of one _profile call on the profiler; a raise unwinds every
\* frame up to the except clause of profile() (lines 168-169).
Step(name, rest) ==
    LET r == CallProfile(name, builder, schema, view, c_names)
    IN  /\ builder' = r.b
        /\ schema' = r.s
        /\ stack' = IF r.raised THEN <<>> ELSE Unwind(Append(rest, r.frame))
        /\ failed' = IF r.raised THEN failed \cup {name} ELSE failed

\* profile(), lines 165-167: the next name of self.c_names.
ProfileRoot ==
    /\ phase = "run"
    /\ stack = <<>>
    /\ idx <= Len(c_names)
    /\ Step(c_names[idx], <<>>)
    /\ idx' = idx + 1
    /\ UNCHANGED <<view, roots, c_names, phase, outs, origin, reloaded, runs>>
    /\ UNCHANGED exceptProf

\* _profile, lines 142-144: the next recursive call of the innermost loop.
ProfileRange ==
    /\ phase = "run"
    /\ stack # <<>>
    /\ LET top == stack[Len(stack)]
       IN Step(Head(top), [stack EXCEPT ![Len(stack)] = Tail(top)])
    /\ UNCHANGED <<view, roots, c_names, idx, phase, outs, origin, reloaded,
                   runs>>
    /\ UNCHANGED exceptProf

\* profile(), lines 170-172.
ProfileReturn ==
    /\ phase = "run"
    /\ stack = <<>>
    /\ idx > Len(c_names)
    /\ phase' = "done"
    /\ outs' = Append(outs, Returned(builder, schema))
    /\ UNCHANGED <<schema, view, roots, c_names, builder, idx, stack, failed,
                   origin, reloaded, runs>>
    /\ UNCHANGED exceptProf

\* A new SchemaProfiler is loaded from the schema the last call returned,
\* with the same requested class names.
Reprofile ==
    /\ phase = "done"
    /\ runs < MaxRuns
    /\ LET out == outs[Len(outs)]
       IN /\ schema' = out
          /\ view' = out
          /\ origin' = out
          /\ c_names' = InitCNames(out, roots, <<>>)
    /\ builder' = EmptyBuilder
    /\ idx' = 1
    /\ stack' = <<>>
    /\ failed' = {}
    /\ phase' = "ready"
    /\ outs' = <<>>
    /\ reloaded' = TRUE
    /\ UNCHANGED <<roots, runs>>
    /\ UNCHANGED exceptProf

Init ==
    ProfInit(Schemas) /\ GenIdle /\ PathIdle /\ WalkIdle /\ MergeIdle

Next ==
    \/ ProfileStart
    \/ ProfileRoot
    \/ ProfileRange
    \/ ProfileReturn

Spec == Init /\ [][Next]_vars

\* A running profile() call is never suspended.
FairSpec == Spec /\ WF_vars(ProfileRoot \/ ProfileRange \/ ProfileReturn)

\* The profiler's output is loaded and profiled again.
ReInit ==
    ProfInit(DeepSchemas) /\ GenIdle /\ PathIdle /\ WalkIdle /\ MergeIdle

ReNext ==
    \/ ProfileStart
    \/ ProfileRoot
    \/ ProfileRange
    \/ ProfileReturn
    \/ Reprofile

ReSpec == ReInit /\ [][ReNext]_vars

\* ---------------------------------------------- ProfilingLinkmlGenerator
GenClassNames == {"A", "B", "C"}
GenRootNames == GenClassNames \cup {Absent}

\* Slot definitions of the generator's schemas: a type-valued slot may be
\* the identifier of its class.
GenChoices ==
    {[range |-> r, required |-> FALSE, identifier |-> FALSE] :
        r \in GenClassNames \cup TypeNames \cup {Absent}}
    \cup {[range |-> r, required |-> FALSE, identifier |-> TRUE] :
            r \in TypeNames}

GenParents ==
    {[A |-> None, B |-> pb, C |-> pc] : pb \in {None, "A"},
                                       pc \in {None, "A", "B"}}

GenSchemas == SchemasOf(GenChoices, GenParents, GenClassNames, MaxAttrs)

GenRootSeqs ==
    UNION {{r \in [1..k -> GenRootNames] : NoDup(r)} : k \in 0..MaxRoots}

HasAttr(attrs, n) == \E k \in DOMAIN attrs : attrs[k].name = n

AttrNamed(attrs, n) == attrs[CHOOSE k \in DOMAIN attrs : attrs[k].name = n]

AttrNameSeq(attrs) == [k \in DOMAIN attrs |-> attrs[k].name]

\* attributes[a.name] = a on an ordered mapping.
SetAttr(attrs, a) ==
    IF HasAttr(attrs, a.name)
    THEN [k \in DOMAIN attrs |-> IF attrs[k].name = a.name THEN a ELSE attrs[k]]
    ELSE Append(attrs, a)

\* SchemaView.class_slots(c): the attribute names of c and of its ancestors,
\* nearest class first, each name once.
RECURSIVE SlotsOfChain(_, _, _)
SlotsOfChain(s, ancs, acc) ==
    IF ancs = <<>> THEN acc
    ELSE SlotsOfChain(s, Tail(ancs),
             AppendNew(acc, AttrNameSeq(s.classes[Head(ancs)].attributes)))

ClassSlots(s, c) == SlotsOfChain(s, ClassAncestors(s, c).names, <<>>)

\* SchemaView.induced_slot(n, c): the definition of n in the nearest class
\* of the chain that has it.
InducedSlot(s, n, c) ==
    LET ancs == ClassAncestors(s, c).names
        k == CHOOSE k \in DOMAIN ancs :
                /\ HasAttr(s.classes[ancs[k]].attributes, n)
                /\ \A j \in 1..(k - 1) :
                      ~HasAttr(s.classes[ancs[j]].attributes, n)
    IN AttrNamed(s.classes[ancs[k]].attributes, n)

\* SchemaView.class_induced_slots(c).
ClassInducedSlots(s, c) ==
    [k \in DOMAIN ClassSlots(s, c) |-> InducedSlot(s, ClassSlots(s, c)[k], c)]

\* SchemaView.get_identifier_slot(r): raises ValueError when r is no class;
\* else the first induced slot of r that is an identifier, if any.
GetIdentifierSlot(s, r) ==
    IF ClassAncestors(s, r).raised THEN [raised |-> TRUE, found |-> FALSE]
    ELSE LET ind == ClassInducedSlots(s, r)
         IN IF \E k \in DOMAIN ind : ind[k].identifier
            THEN [raised |-> FALSE, found |-> TRUE,
                  slot |-> ind[CHOOSE k \in DOMAIN ind :
                                 /\ ind[k].identifier
                                 /\ \A j \in 1..(k - 1) : ~ind[j].identifier]]
            ELSE [raised |-> FALSE, found |-> FALSE]

\* _data_product, lines 48-51: the induced slots become attributes of c.
RECURSIVE Flatten(_, _)
Flatten(attrs, induced) ==
    IF induced = <<>> THEN attrs
    ELSE Flatten(SetAttr(attrs, Head(induced)), Tail(induced))

\* _data_product, lines 53-65: attribute k of class c takes the range of the
\* identifier of its range class, when that class has one.
RECURSIVE Rewrite(_, _, _)
Rewrite(s, c, k) ==
    IF k > Len(s.classes[c].attributes) THEN s
    ELSE LET id == GetIdentifierSlot(s, s.classes[c].attributes[k].range)
         IN Rewrite(IF id.raised \/ ~id.found THEN s
                    ELSE [s EXCEPT !.classes[c].attributes[k].range =
                                      id.slot.range],
                    c, k + 1)

\* _data_product(class_name).
DataProduct(s, c) ==
    Rewrite([s EXCEPT !.classes[c].attributes =
                         Flatten(@, ClassInducedSlots(s, c))], c, 1)

\* profile._profile(c_name, found), lines 124-137: the ranges reached from
\* c_name over local attributes, each followed once.
RECURSIVE FoundFrom(_, _, _), FoundAttrs(_, _, _)
FoundFrom(s, c, found) ==
    IF c \notin DOMAIN s.classes THEN found
    ELSE FoundAttrs(s, s.classes[c].attributes, found)

FoundAttrs(s, attrs, found) ==
    IF attrs = <<>> THEN found
    ELSE LET r == Head(attrs).range
         IN FoundAttrs(s, Tail(attrs),
                       IF r \in found THEN found
                       ELSE FoundFrom(s, r, found \cup {r}))

\* Mutant: found is not cleared before the single class is added.
RetainedAll(found, names, dp) ==
    IF dp THEN found \cup {names[1]} ELSE found

\* profile, lines 149-156: what is retained.
Retained(found, names, dp) ==
    IF dp THEN {names[1]} ELSE found

\* SchemaView.delete_class(c), delete_references left at its default: the
\* class goes, and the children of c lose their is_a.
DeleteClass(s, c) ==
    [s EXCEPT !.classes =
        [d \in DOMAIN s.classes \ {c} |->
            IF s.classes[d].is_a = c
            THEN [s.classes[d] EXCEPT !.is_a = None]
            ELSE s.classes[d]]]

RECURSIVE DeleteClasses(_, _)
DeleteClasses(s, S) ==
    IF S = {} THEN s
    ELSE LET c == CHOOSE c \in S : TRUE
         IN DeleteClasses(DeleteClass(s, c), S \ {c})

\* clean(found), lines 96-114.
Clean(s, found) ==
    LET t == DeleteClasses(s, DOMAIN s.classes \ found)
    IN [t EXCEPT !.enums = @ \cap found, !.types = @ \cap found]

\* No profiler takes part in a behaviour of the generator.
ProfIdle ==
    /\ schema = None
    /\ view = None
    /\ origin = None
    /\ roots = <<>>
    /\ c_names = <<>>
    /\ reloaded = FALSE
    /\ builder = EmptyBuilder
    /\ idx = 1
    /\ stack = <<>>
    /\ failed = {}
    /\ phase = "idle"
    /\ outs = <<>>
    /\ runs = 0

GenInit ==
    /\ \E s \in GenSchemas, n \in GenRootSeqs, dp \in BOOLEAN :
          /\ g_schema = s
          /\ g_src = s
          /\ g_names = n
          /\ g_dp = dp
    /\ g_todo = {}
    /\ g_found = {}
    /\ g_phase = "ready"
    /\ ProfIdle
    /\ PathIdle
    /\ WalkIdle
    /\ MergeIdle

\* profile, lines 139-142: class_ancestors raises for an unknown name.
GenAncestors ==
    /\ g_phase = "ready"
    /\ IF \E k \in DOMAIN g_names : ClassAncestors(g_schema, g_names[k]).raised
       THEN /\ g_phase' = "error"
            /\ g_todo' = {}
       ELSE /\ g_phase' = "found"
            /\ g_todo' = UNION {Range(ClassAncestors(g_schema, g_names[k]).names) :
                                  k \in DOMAIN g_names}
    /\ UNCHANGED <<g_schema, g_src, g_names, g_dp, g_found>>
    /\ UNCHANGED exceptGen

\* profile, lines 143-146: one class of ancestors, in the set's order.
GenFound ==
    /\ g_phase = "found"
    /\ \E c \in g_todo :
          /\ g_todo' = g_todo \ {c}
          /\ g_found' = g_found \cup {c} \cup FoundFrom(g_schema, c, {})
    /\ UNCHANGED <<g_schema, g_src, g_names, g_dp, g_phase>>
    /\ UNCHANGED exceptGen

\* profile, lines 149-156.
GenDataProduct ==
    /\ g_phase = "found"
    /\ g_todo = {}
    /\ g_dp
    /\ IF Len(g_names) # 1
       THEN /\ g_phase' = "error"
            /\ UNCHANGED <<g_schema, g_found>>
       ELSE /\ g_phase' = "clean"
            /\ g_schema' = DataProduct(g_schema, g_names[1])
            /\ g_found' = Retained(g_found, g_names, g_dp)
    /\ UNCHANGED <<g_src, g_names, g_dp, g_todo>>
    /\ UNCHANGED exceptGen

\* profile, lines 158-159.
GenClean ==
    /\ \/ g_phase = "clean"
       \/ g_phase = "found" /\ g_todo = {} /\ ~g_dp
    /\ g_schema' = Clean(g_schema, Retained(g_found, g_names, g_dp))
    /\ g_phase' = "done"
    /\ UNCHANGED <<g_src, g_names, g_dp, g_todo, g_found>>
    /\ UNCHANGED exceptGen

GenNext ==
    \/ GenAncestors
    \/ GenFound
    \/ GenDataProduct
    \/ GenClean

GenSpec == GenInit /\ [][GenNext]_vars

\* ------------------------------------------ SchemaProfiler.shortest_path
PathClassNames == {"A", "B", "C", "D"}
PathEndNames == PathClassNames \cup {Absent}

PathChoices ==
    {[range |-> r, required |-> FALSE, identifier |-> FALSE] :
        r \in PathClassNames \cup TypeNames \cup {Absent}}

PathParents ==
    {[A |-> None, B |-> pb, C |-> pc, D |-> pd] :
        pb \in {None, "A"}, pc \in {None, "B"}, pd \in {None, "A"}}

PathSchemas ==
    SchemasOf(PathChoices, PathParents, PathClassNames, MaxPathAttrs)

\* _range_is_class, lines 102-104: view.get_class finds the range or not.
RangeIsClass(v, s_def) == s_def.range \in DOMAIN v.classes

\* DiGraph.add_edge: the end points become nodes when they are not yet.
AddEdge(G, e) ==
    [nodes |-> G.nodes \cup {e[1], e[2]}, edges |-> G.edges \cup {e}]

\* shortest_path, lines 446-451: the attributes of class c from position k
\* on; a slot that is not class-valued is passed over.
RECURSIVE AttrEdges(_, _, _, _, _)
AttrEdges(v, G, c, attrs, k) ==
    IF k > Len(attrs) THEN [raised |-> FALSE, G |-> G]
    ELSE IF ~RangeIsClass(v, attrs[k]) THEN AttrEdges(v, G, c, attrs, k + 1)
    ELSE IF attrs[k].range \notin G.nodes THEN [raised |-> TRUE, G |-> G]
    ELSE AttrEdges(v, AddEdge(G, <<c, attrs[k].range>>), c, attrs, k + 1)

\* shortest_path, lines 441-451: the loop over the classes.  The edges do
\* not depend on the order in which the classes are visited.
RECURSIVE ClassEdges(_, _, _)
ClassEdges(v, G, todo) ==
    IF todo = {} THEN [raised |-> FALSE, G |-> G]
    ELSE LET c == CHOOSE c \in todo : TRUE
             c_def == v.classes[c]
             G1 == IF c_def.is_a # None THEN AddEdge(G, <<c_def.is_a, c>>)
                   ELSE G
             r == AttrEdges(v, G1, c, c_def.attributes, 1)
         IN IF r.raised THEN r ELSE ClassEdges(v, r.G, todo \ {c})

\* shortest_path, lines 439-451.
BuildGraph(v) ==
    ClassEdges(v, [nodes |-> DOMAIN v.classes, edges |-> {}],
               DOMAIN v.classes)

\* G[v]: the successors of a node.
Succ(G, n) == {e[2] : e \in {d \in G.edges : d[1] = n}}

\* A search that records one predecessor only.
PredLevelFirst(G, front, seen, pred, level) ==
    LET new == UNION {Succ(G, n) : n \in front} \ DOMAIN seen
    IN [seen |-> [w \in new |-> level] @@ seen,
        pred |-> [w \in new |->
                    {CHOOSE n \in front : w \in Succ(G, n)}] @@ pred,
        front |-> new]

\* networkx predecessor(), one pass of its while loop: a node met for the
\* first time gets the level and its predecessor; a node met again on the
\* same level gets one predecessor more.
PredLevel(G, front, seen, pred, level) ==
    LET new == UNION {Succ(G, n) : n \in front} \ DOMAIN seen
    IN [seen |-> [w \in new |-> level] @@ seen,
        pred |-> [w \in new |-> {n \in front : w \in Succ(G, n)}] @@ pred,
        front |-> new]

\* networkx _build_paths_from_predecessors: every path back to the source.
RECURSIVE PathsFromPred(_, _, _)
PathsFromPred(pred, source, n) ==
    IF n = source THEN {<<source>>}
    ELSE UNION {{Append(q, n) : q \in PathsFromPred(pred, source, m)} :
                m \in pred[n]}

PathInit ==
    /\ \E s \in PathSchemas, a \in PathEndNames, b \in PathEndNames :
          /\ p_view = s
          /\ p_src = a
          /\ p_dst = b
    /\ p_graph = None
    /\ p_seen = <<>>
    /\ p_pred = <<>>
    /\ p_front = {}
    /\ p_level = 0
    /\ p_paths = {}
    /\ p_phase = "ready"
    /\ p_error = None
    /\ ProfIdle
    /\ GenIdle
    /\ WalkIdle
    /\ MergeIdle

\* shortest_path, lines 439-451: G is built, or the range check raises.
PathGraph ==
    /\ p_phase = "ready"
    /\ LET r == BuildGraph(p_view)
       IN /\ p_graph' = r.G
          /\ p_phase' = IF r.raised THEN "error" ELSE "graph"
          /\ p_error' = IF r.raised THEN "ValueError" ELSE None
    /\ UNCHANGED <<p_view, p_src, p_dst, p_seen, p_pred, p_front, p_level,
                   p_paths>>
    /\ UNCHANGED exceptPath

\* line 453, all_shortest_paths: predecessor() starts at the source, which
\* has to be a node.
PathSearch ==
    /\ p_phase = "graph"
    /\ IF p_src \in p_graph.nodes
       THEN /\ p_seen' = (p_src :> 0)
            /\ p_pred' = (p_src :> {})
            /\ p_front' = {p_src}
            /\ p_phase' = "search"
            /\ p_error' = None
       ELSE /\ p_phase' = "error"
            /\ p_error' = "NodeNotFound"
            /\ UNCHANGED <<p_seen, p_pred, p_front>>
    /\ UNCHANGED <<p_view, p_src, p_dst, p_graph, p_level, p_paths>>
    /\ UNCHANGED exceptPath

\* predecessor(): one level of the search.
PathLevel ==
    /\ p_phase = "search"
    /\ p_front # {}
    /\ LET r == PredLevel(p_graph, p_front, p_seen, p_pred, p_level + 1)
       IN /\ p_seen' = r.seen
          /\ p_pred' = r.pred
          /\ p_front' = r.front
    /\ p_level' = p_level + 1
    /\ UNCHANGED <<p_view, p_src, p_dst, p_graph, p_paths, p_phase, p_error>>
    /\ UNCHANGED exceptPath

\* lines 453-456: the paths are enumerated; a destination that the search
\* did not meet makes all_shortest_paths raise NetworkXNoPath.
PathEnumerate ==
    /\ p_phase = "search"
    /\ p_front = {}
    /\ IF p_dst \in DOMAIN p_pred
       THEN /\ p_paths' = PathsFromPred(p_pred, p_src, p_dst)
            /\ p_phase' = "done"
            /\ p_error' = None
       ELSE /\ p_phase' = "error"
            /\ p_error' = "NetworkXNoPath"
            /\ UNCHANGED p_paths
    /\ UNCHANGED <<p_view, p_src, p_dst, p_graph, p_seen, p_pred, p_front,
                   p_level>>
    /\ UNCHANGED exceptPath

PathNext ==
    \/ PathGraph
    \/ PathSearch
    \/ PathLevel
    \/ PathEnumerate

PathSpec == PathInit /\ [][PathNext]_vars

\* ------------------------ SchemaProfiler.example and _class_instance
WalkClassNames == {"A", "B", "C"}
StringType == "string"

\* Slot definitions of the walker's schemas: a class-valued slot is marked
\* inlined or not; a string slot is the identifier of its class, and is the
\* only kind of slot that is required.
WalkChoices ==
    {[range |-> r, required |-> FALSE, identifier |-> FALSE, inlined |-> i] :
        r \in WalkClassNames, i \in BOOLEAN}
    \cup {[range |-> StringType, required |-> TRUE, identifier |-> TRUE,
           inlined |-> FALSE]}

WalkParents == {[A |-> None, B |-> pb, C |-> None] : pb \in {None, "A"}}

WalkSchemasOf(budget) ==
    {[s EXCEPT !.types = {StringType}, !.enums = {}] :
        s \in SchemasOf(WalkChoices, WalkParents, WalkClassNames, budget)}

WalkSchemas == WalkSchemasOf(MaxWalkAttrs)

\* Values of an instance: the empty string, a placeholder, or a nested
\* instance, which is a sequence of entries [name, val] in insertion order.
StrVal == [kind |-> "str", id |-> 0, obj |-> <<>>]
UuidVal(n) == [kind |-> "uuid", id |-> n, obj |-> <<>>]
ObjVal(o) == [kind |-> "obj", id |-> 0, obj |-> o]

\* obj[s_name] = s_val, line 350.
Store(obj, n, val) == Append(obj, [name |-> n, val |-> val])

\* SchemaView.is_inlined(slot): a class-valued slot is inlined when it says
\* so or when its range has no identifier slot.
IsInlined(v, s_def) ==
    /\ s_def.range \in DOMAIN v.classes
    /\ \/ s_def.inlined
       \/ ~GetIdentifierSlot(v, s_def.range).found

\* lines 289-293: the ancestors of the enclosing class, none at the top.
Ancestors(v, prev) ==
    IF prev = None THEN {} ELSE Range(ClassAncestors(v, prev).names)

\* A new call of _class_instance, lines 288-295.
Frame(v, c_name, prev) ==
    [c_name |-> c_name, prev |-> prev,
     attrs |-> ClassInducedSlots(v, c_name), k |-> 1, obj |-> <<>>]

\* _get_uuid, lines 279-284: the identifier the value is cached under for
\* the slot of a not-inlined value, None when the slot gets no placeholder.
\* Lines 320-326: a class range with an identifier slot; lines 345-347: a
\* string identifier (populate is TRUE under example()).
UuidKey(v, c_name, s_def) ==
    IF s_def.range \in DOMAIN v.classes
    THEN LET id_range == GetIdentifierSlot(v, s_def.range)
         IN IF id_range.found THEN <<s_def.range, id_range.slot.name>>
            ELSE None
    ELSE IF s_def.range = StringType /\ s_def.identifier
    THEN <<c_name, s_def.name>>
    ELSE None

Top == w_stack[Len(w_stack)]
TopAttr == Top.attrs[Top.k]

\* The top call moves on to its next attribute.
Advance(calls, obj) ==
    [calls EXCEPT ![Len(calls)] = [@ EXCEPT !.k = @ + 1, !.obj = obj]]

\* example(), lines 353-357: the call of _class_instance(c_name).
StartCall(c, skip) ==
    /\ w_root' = c
    /\ w_skip' = skip
    /\ w_stack' = <<Frame(w_view, c, None)>>
    /\ w_mark' = w_made
    /\ w_result' = <<>>
    /\ w_calls' = w_calls + 1
    /\ w_phase' = "walk"
    /\ w_error' = None
    /\ UNCHANGED <<w_view, w_uuid, w_made>>
    /\ UNCHANGED exceptWalk

\* A SchemaProfiler constructed on one of the schemas of S; __init__,
\* line 76, makes the empty _uuid.
WalkInitOn(S) ==
    /\ w_view \in S
    /\ w_root = None
    /\ w_skip = FALSE
    /\ w_stack = <<>>
    /\ w_uuid = <<>>
    /\ w_made = 0
    /\ w_mark = 0
    /\ w_result = <<>>
    /\ w_calls = 0
    /\ w_phase = "ready"
    /\ w_error = None
    /\ ProfIdle
    /\ GenIdle
    /\ PathIdle
    /\ MergeIdle

\* The first example() call on the object.
Example ==
    /\ w_phase = "ready"
    /\ \E c \in WalkClassNames, skip \in BOOLEAN : StartCall(c, skip)

\* A later example() call on the same object.
ExampleAgain ==
    /\ w_phase \in {"done", "error"}
    /\ w_calls < MaxCalls
    /\ \E c \in WalkClassNames, skip \in BOOLEAN : StartCall(c, skip)

Walking == w_phase = "walk" /\ Top.k <= Len(Top.attrs)

\* lines 297-299: an optional attribute is left out under skip.
WalkSkipOptional ==
    /\ Walking
    /\ ~TopAttr.required /\ w_skip
    /\ w_stack' = Advance(w_stack, Top.obj)
    /\ UNCHANGED <<w_view, w_root, w_skip, w_uuid, w_made, w_mark, w_result,
                   w_calls, w_phase, w_error>>
    /\ UNCHANGED exceptWalk

\* lines 300-303: the range is an ancestor of the enclosing class; the
\* attribute is logged and left out.
WalkGuard ==
    /\ Walking
    /\ ~(~TopAttr.required /\ w_skip)
    /\ TopAttr.range \in Ancestors(w_view, Top.prev)
    /\ w_stack' = Advance(w_stack, Top.obj)
    /\ UNCHANGED <<w_view, w_root, w_skip, w_uuid, w_made, w_mark, w_result,
                   w_calls, w_phase, w_error>>
    /\ UNCHANGED exceptWalk

WalkInlinedAttr ==
    /\ Walking
    /\ ~(~TopAttr.required /\ w_skip)
    /\ TopAttr.range \notin Ancestors(w_view, Top.prev)
    /\ IsInlined(w_view, TopAttr)

\* lines 306-310: the recursive call for an inlined range.
WalkInline ==
    /\ WalkInlinedAttr
    /\ Len(w_stack) < MaxDepth
    /\ w_stack' = Append(w_stack, Frame(w_view, TopAttr.range, Top.c_name))
    /\ UNCHANGED <<w_view, w_root, w_skip, w_uuid, w_made, w_mark, w_result,
                   w_calls, w_phase, w_error>>
    /\ UNCHANGED exceptWalk

\* lines 306-310: the recursive call that exceeds the interpreter's limit
\* raises RecursionError, which nothing catches.
WalkOverflow ==
    /\ WalkInlinedAttr
    /\ Len(w_stack) >= MaxDepth
    /\ w_stack' = <<>>
    /\ w_phase' = "error"
    /\ w_error' = "RecursionError"
    /\ UNCHANGED <<w_view, w_root, w_skip, w_uuid, w_made, w_mark, w_result,
                   w_calls>>
    /\ UNCHANGED exceptWalk

\* lines 311-350: the value of an attribute that is not inlined.
WalkValue ==
    /\ Walking
    /\ ~(~TopAttr.required /\ w_skip)
    /\ TopAttr.range \notin Ancestors(w_view, Top.prev)
    /\ ~IsInlined(w_view, TopAttr)
    /\ LET key == UuidKey(w_view, Top.c_name, TopAttr)
       IN IF key = None
          THEN /\ w_stack' = Advance(w_stack,
                                 Store(Top.obj, TopAttr.name, StrVal))
               /\ UNCHANGED <<w_uuid, w_made>>
          ELSE IF key \in DOMAIN w_uuid
          THEN /\ w_stack' = Advance(w_stack,
                                 Store(Top.obj, TopAttr.name,
                                       UuidVal(w_uuid[key])))
               /\ UNCHANGED <<w_uuid, w_made>>
          ELSE /\ w_stack' = Advance(w_stack,
                                 Store(Top.obj, TopAttr.name,
                                       UuidVal(w_made + 1)))
               /\ w_uuid' = (key :> (w_made + 1)) @@ w_uuid
               /\ w_made' = w_made + 1
    /\ UNCHANGED <<w_view, w_root, w_skip, w_mark, w_result, w_calls,
                   w_phase, w_error>>
    /\ UNCHANGED exceptWalk

\* line 351: a nested call returns obj, which line 350 stores in the caller.
WalkReturn ==
    /\ w_phase = "walk"
    /\ Top.k > Len(Top.attrs)
    /\ Len(w_stack) > 1
    /\ LET rest == SubSeq(w_stack, 1, Len(w_stack) - 1)
           up == rest[Len(rest)]
       IN w_stack' = Advance(rest,
                         Store(up.obj, up.attrs[up.k].name, ObjVal(Top.obj)))
    /\ UNCHANGED <<w_view, w_root, w_skip, w_uuid, w_made, w_mark, w_result,
                   w_calls, w_phase, w_error>>
    /\ UNCHANGED exceptWalk

\* lines 351, 356: the outermost call returns the instance to example().
WalkDone ==
    /\ w_phase = "walk"
    /\ Top.k > Len(Top.attrs)
    /\ Len(w_stack) = 1
    /\ w_result' = Top.obj
    /\ w_stack' = <<>>
    /\ w_phase' = "done"
    /\ UNCHANGED <<w_view, w_root, w_skip, w_uuid, w_made, w_mark, w_calls,
                   w_error>>
    /\ UNCHANGED exceptWalk

WalkInit == WalkInitOn(WalkSchemas)

WalkNext ==
    \/ Example
    \/ WalkSkipOptional
    \/ WalkGuard
    \/ WalkInline
    \/ WalkOverflow
    \/ WalkValue
    \/ WalkReturn
    \/ WalkDone

WalkSpec == WalkInit /\ [][WalkNext]_vars

CacheInit == WalkInitOn(WalkSchemas)

CacheNext == WalkNext \/ ExampleAgain

CacheSpec == CacheInit /\ [][CacheNext]_vars

\* ------------------------------------------------ SchemaProfiler.merge
MergeClassNames == {"A", "B"}
MergeAttrNames == {"x", "y"}
MergeTypeNames == {"T"}
SlotValues == {[range |-> "T"], [range |-> "E"]}
TypeValues == {[uri |-> "u1"], [uri |-> "u2"]}

\* The mappings from some of the names to the values.
PartialMaps(names, values) == UNION {[S -> values] : S \in SUBSET names}

\* The content of a schema: a class maps to its attribute mapping.
MergeSchemas ==
    {[classes |-> a, types |-> t] :
        a \in {f \in PartialMaps(MergeClassNames,
                                 PartialMaps(MergeAttrNames, SlotValues)) :
                 \A c \in DOMAIN f, d \in DOMAIN f :
                    c # d => Cardinality(DOMAIN f[c])
                               + Cardinality(DOMAIN f[d]) <= MaxMergeAttrs},
        t \in PartialMaps(MergeTypeNames, TypeValues)}

\* The schema objects of a content: every class gets an attribute mapping
\* of its own, at the address <<tag, c>>.
Objects(tag, content) ==
    [classes |-> [c \in DOMAIN content.classes |->
                    [attributes |-> <<tag, c>>]],
     types |-> content.types]

HeapOf(tag, content) ==
    [a \in {<<tag, c>> : c \in DOMAIN content.classes} |->
        content.classes[a[2]]]

\* The content of a schema object.
Content(sch, heap) ==
    [classes |-> [c \in DOMAIN sch.classes |->
                    heap[sch.classes[c].attributes]],
     types |-> sch.types]

\* copy(v): a new object whose fields refer to what the fields of v refer to.
Copy(v) == v

\* The pattern of lines 255-257 and 266-277, and of lines 261-264 on an
\* attribute mapping: an entry of the source is copied when clobber is set
\* or the name is not in the destination.
MergeEntries(d, s, clobber) ==
    [k \in DOMAIN d \cup DOMAIN s |->
        IF k \in DOMAIN s /\ (clobber \/ k \notin DOMAIN d)
        THEN Copy(s[k]) ELSE d[k]]

\* lines 258-264, the classes of todo: the class is copied, then the
\* attributes are written into the mapping that dest.classes[k] refers to.
RECURSIVE MergeClasses(_, _, _, _, _)
MergeClasses(classes, heap, src, todo, clobber) ==
    IF todo = {} THEN [classes |-> classes, heap |-> heap]
    ELSE LET k == CHOOSE k \in todo : TRUE
             v == src[k]
             c1 == IF clobber \/ k \notin DOMAIN classes
                   THEN (k :> Copy(v)) @@ classes ELSE classes
             at == c1[k].attributes
             h1 == [heap EXCEPT
                      ![at] = MergeEntries(heap[at], heap[v.attributes],
                                           clobber)]
         IN MergeClasses(c1, h1, src, todo \ {k}, clobber)

\* A SchemaProfiler on one schema; merge() has loaded another, line 252.
MergeInit ==
    /\ \E d \in MergeSchemas, s \in MergeSchemas :
          /\ m_dest = Objects("dest", d)
          /\ m_src = Objects("src", s)
          /\ m_heap = HeapOf("dest", d) @@ HeapOf("src", s)
          /\ m_dest0 = d
          /\ m_src0 = s
    /\ m_clobber \in BOOLEAN
    /\ m_phase = "ready"
    /\ ProfIdle
    /\ GenIdle
    /\ PathIdle
    /\ WalkIdle

\* lines 258-264.
MergeClassEntries ==
    /\ m_phase = "ready"
    /\ LET r == MergeClasses(m_dest.classes, m_heap, m_src.classes,
                             DOMAIN m_src.classes, m_clobber)
       IN /\ m_dest' = [m_dest EXCEPT !.classes = r.classes]
          /\ m_heap' = r.heap
    /\ m_phase' = "classes"
    /\ UNCHANGED <<m_src, m_clobber, m_dest0, m_src0>>
    /\ UNCHANGED exceptMerge

\* lines 269-271; prefixes, slots, enums and subsets (lines 255-257,
\* 266-268, 272-277) are merged by the same statements.
MergeTypeEntries ==
    /\ m_phase = "classes"
    /\ m_dest' = [m_dest EXCEPT
                    !.types = MergeEntries(m_dest.types, m_src.types,
                                           m_clobber)]
    /\ m_phase' = "done"
    /\ UNCHANGED <<m_src, m_heap, m_clobber, m_dest0, m_src0>>
    /\ UNCHANGED exceptMerge

MergeNext ==
    \/ MergeClassEntries
    \/ MergeTypeEntries

MergeSpec == MergeInit /\ [][MergeNext]_vars

\* ------------------------------------------------------------------ claims
Out == outs[Len(outs)]

Present(out) == DOMAIN out.classes \cup out.types \cup out.enums

RangesOf(attrs) == {attrs[k].range : k \in DOMAIN attrs}

\* The classes of S that are in the schema sch, with everything above them on
\* the is_a chains of sch.
RECURSIVE UpClosure(_, _)
UpClosure(sch, S) ==
    LET up == S \cup {sch.classes[c].is_a : c \in S \cap DOMAIN sch.classes}
        nxt == (up \ {None}) \cap DOMAIN sch.classes
    IN IF nxt = S THEN S ELSE UpClosure(sch, nxt)

\* C1: in the schema profile() returns, every range named by an attribute of
\* a kept class is present in that schema as a class, a type or an enum.
C1_Closure ==
    phase = "done" =>
        \A c \in DOMAIN Out.classes :
            RangesOf(Out.classes[c].attributes) \subseteq Present(Out)

\* C2: for every class in the schema profile() returns, every ancestor of
\* the class on the is_a chain of the input schema is in that schema too.
C2_AncestorInclusion ==
    phase = "done" =>
        UpClosure(origin, DOMAIN Out.classes) = DOMAIN Out.classes

C2_Witness ==
    /\ phase = "done"
    /\ "B" \in DOMAIN Out.classes
    /\ origin.classes["B"].is_a = "A"
    /\ "A" \notin Range(roots)
    /\ "A" \in DOMAIN Out.classes

\* C3 as claimed: a required class-valued attribute is never pruned from a
\* kept class, and its range class is kept in the output.
C3_RequiredFollowed ==
    phase = "done" =>
        \A c \in DOMAIN Out.classes :
            \A k \in DOMAIN origin.classes[c].attributes :
                LET a == origin.classes[c].attributes[k]
                IN (a.required /\ a.range \in DOMAIN origin.classes) =>
                      /\ a \in Range(Out.classes[c].attributes)
                      /\ a.range \in DOMAIN Out.classes

\* C3 as amended: a class-valued attribute is followed only when its range
\* is one of the requested class names or their ancestors, required or not:
\* the classes of the output are exactly those names, and a kept class whose
\* ranges all resolve loses every attribute whose range is a class outside
\* those names and keeps the others.
C3_RequestedOnly ==
    phase = "done" =>
        /\ DOMAIN Out.classes = Range(c_names)
        /\ \A c \in DOMAIN Out.classes \ failed :
              \A k \in DOMAIN origin.classes[c].attributes :
                  LET a == origin.classes[c].attributes[k]
                  IN a \in Range(Out.classes[c].attributes) <=>
                        ~(a.range \in DOMAIN origin.classes
                          /\ a.range \notin Range(c_names))

\* A -(required)-> B -(required)-> A profiled with the single root A: the
\* output is the class A alone, without its attribute.
C3_Witness ==
    /\ phase = "done"
    /\ roots = <<"A">>
    /\ origin.classes["A"].is_a = None
    /\ origin.classes["A"].attributes =
          <<[name |-> "x", range |-> "B", required |-> TRUE,
             identifier |-> FALSE]>>
    /\ origin.classes["B"].attributes =
          <<[name |-> "x", range |-> "A", required |-> TRUE,
             identifier |-> FALSE]>>
    /\ DOMAIN Out.classes = {"A"}
    /\ Out.classes["A"].attributes = <<>>

C5_Deterministic ==
    \A j, k \in DOMAIN outs : outs[j] = outs[k]

\* The second call ran on classes that the first call had pruned.
C5_Witness ==
    /\ Len(outs) = 2
    /\ schema # origin
    /\ DOMAIN outs[2].classes # {}

\* C6: after profile() returns, the loaded input schema is as it was.
C6_InputUnchanged ==
    phase = "done" => schema = origin

\* C7: profiling the schema that profile() returned, with the same requested
\* names, returns that schema again.
C7_Idempotent ==
    (phase = "done" /\ reloaded) => Out = origin

\* C8: a class whose profiling failed with the invalid-range error is not in
\* the schema profile() returns.
C8_FailedNotAdded ==
    phase = "done" => failed \cap DOMAIN Out.classes = {}

\* C9: a requested name that is no class of the schema adds nothing to
\* self.c_names, and the requested names that are classes are kept with all
\* their ancestors and are in the output.
C9_MissingRootSkipped ==
    /\ Range(c_names) =
          UpClosure(origin, Range(roots) \cap DOMAIN origin.classes)
    /\ phase = "done" => Range(c_names) \subseteq DOMAIN Out.classes

C9_Witness ==
    /\ phase = "done"
    /\ roots = <<Absent, "B">>
    /\ origin.classes["B"].is_a = "A"
    /\ DOMAIN Out.classes = {"A", "B"}

\* C10: after profile([C], data_product=True) the schema holds the single
\* class C, C has no is_a, and the attribute names of C are the names of the
\* attributes of C and of its ancestors in the source schema.
C10_Flatten ==
    (g_phase = "done" /\ g_dp) =>
        LET c == g_names[1]
        IN /\ DOMAIN g_schema.classes = {c}
           /\ g_schema.classes[c].is_a = None
           /\ {g_schema.classes[c].attributes[k].name :
                   k \in DOMAIN g_schema.classes[c].attributes} =
              UNION {{g_src.classes[d].attributes[k].name :
                         k \in DOMAIN g_src.classes[d].attributes} :
                     d \in UpClosure(g_src, {c})}

\* A class with a parent was flattened and took an attribute from it.
C10_Witness ==
    /\ g_phase = "done"
    /\ g_dp
    /\ g_src.classes[g_names[1]].is_a # None
    /\ Len(g_schema.classes[g_names[1]].attributes) >
          Len(g_src.classes[g_names[1]].attributes)

\* C19: after ProfilingLinkmlGenerator.profile (data_product false) has
\* cleaned the schema, every ancestor that a retained class has in the source
\* schema is retained too, also for a class retained only as a range.
C19_GenAncestorInclusion ==
    (g_phase = "done" /\ ~g_dp) =>
        UpClosure(g_src, DOMAIN g_schema.classes) = DOMAIN g_schema.classes

\* The edges that the schema defines: parent to child for every is_a, class
\* to range for every class-valued attribute.
SchemaEdges(s) ==
    {<<s.classes[c].is_a, c>> :
        c \in {d \in DOMAIN s.classes : s.classes[d].is_a # None}}
    \cup UNION {{<<c, s.classes[c].attributes[k].range>> :
                    k \in {j \in DOMAIN s.classes[c].attributes :
                            s.classes[c].attributes[j].range
                                \in DOMAIN s.classes}} :
                c \in DOMAIN s.classes}

\* The walks of P, each extended by one edge of E.
Extend(E, P) ==
    UNION {{Append(q, e[2]) : e \in {d \in E : d[1] = q[Len(q)]}} : q \in P}

\* The walks from a to b with the least number of nodes, n or more; P holds
\* every walk of n nodes from a.  A walk of least length visits no node
\* twice, so it has at most as many nodes as the schema has classes.
RECURSIVE LeastWalks(_, _, _, _)
LeastWalks(s, P, b, n) ==
    IF n > Cardinality(DOMAIN s.classes) THEN {}
    ELSE LET hit == {q \in P : q[Len(q)] = b}
         IN IF hit # {} THEN hit
            ELSE LeastWalks(s, Extend(SchemaEdges(s), P), b, n + 1)

MinimalPaths(s, a, b) ==
    IF a \in DOMAIN s.classes THEN LeastWalks(s, {<<a>>}, b, 1) ELSE {}

PathEnded == p_phase \in {"done", "error"}

\* C11: when shortest_path has ended, the paths it enumerated are exactly the
\* directed paths of minimal length from source to destination in the graph
\* of the schema's classes (is_a edges parent to child, attribute edges class
\* to range class).
C11_MinimalPaths ==
    PathEnded => p_paths = MinimalPaths(p_view, p_src, p_dst)

\* Two paths of the same minimal length, three nodes each, are enumerated.
C11_Witness ==
    /\ p_phase = "done"
    /\ Cardinality(p_paths) = 2
    /\ \A q \in p_paths : Len(q) = 3

\* C12: source and destination are classes and no directed path joins them:
\* shortest_path enumerates nothing and ends without an error.
C12_NoPathNoError ==
    (/\ PathEnded
     /\ p_src \in DOMAIN p_view.classes
     /\ p_dst \in DOMAIN p_view.classes
     /\ MinimalPaths(p_view, p_src, p_dst) = {})
        => (p_phase = "done" /\ p_paths = {})

\* An attribute whose range is no type, no enum and no class of the schema.
Dangling(s) ==
    \E c \in DOMAIN s.classes : \E k \in DOMAIN s.classes[c].attributes :
        s.classes[c].attributes[k].range
            \notin s.types \cup s.enums \cup DOMAIN s.classes

\* C13: with a dangling attribute range in the schema, building the graph
\* ends shortest_path with the invalid-reference error.
C13_DanglingRaises ==
    (p_phase \notin {"idle", "ready"} /\ Dangling(p_view))
        => (p_phase = "error" /\ p_error = "ValueError")

\* The class has an inlined attribute whose range is the class itself.
SelfInlined(v, c) ==
    \E k \in DOMAIN ClassInducedSlots(v, c) :
        /\ ClassInducedSlots(v, c)[k].range = c
        /\ IsInlined(v, ClassInducedSlots(v, c)[k])

\* C14: example() on a class with an inlined attribute whose range is the
\* class itself ends in a Recursion error; it returns no instance.
C14_SelfReferenceRaises ==
    (w_phase \in {"done", "error"} /\ ~w_skip /\ SelfInlined(w_view, w_root))
        => (w_phase = "error" /\ w_error = "RecursionError")

\* C15: the nesting of _class_instance calls never exceeds the number of
\* classes of the schema.
C15_DepthBounded == Len(w_stack) <= Cardinality(DOMAIN w_view.classes)

\* The placeholders of an instance, nested instances included.
RECURSIVE UuidsOf(_)
UuidsOf(obj) ==
    UNION {IF obj[k].val.kind = "uuid" THEN {obj[k].val.id}
           ELSE IF obj[k].val.kind = "obj" THEN UuidsOf(obj[k].val.obj)
           ELSE {} : k \in DOMAIN obj}

\* C18: every example() call starts from an empty identifier cache, and no
\* placeholder in the instance it returns was generated by an earlier call.
C18_CacheNotLeaked ==
    /\ (w_phase = "walk" /\ Len(w_stack) = 1 /\ Top.k = 1 /\ Top.obj = <<>>)
          => w_uuid = <<>>
    /\ (w_phase = "done") => (UuidsOf(w_result) \cap 1..w_mark = {})

\* The names of a mapping that may be missing under c.
NamesAt(f, c) == IF c \in DOMAIN f THEN DOMAIN f[c] ELSE {}

\* The entries of category g agree with the claim: the names are the union;
\* without clobber a destination entry keeps its value, with clobber a
\* source entry has the source's value.
MergedAs(g, d, s) ==
    /\ DOMAIN g = DOMAIN d \cup DOMAIN s
    /\ ~m_clobber => \A k \in DOMAIN d : g[k] = d[k]
    /\ m_clobber => \A k \in DOMAIN s : g[k] = s[k]

\* C16: after merge the names of every category, and of the attributes of
\* every class, are the union of the destination's and the source's names;
\* without clobber every entry of the destination keeps its value, with
\* clobber every entry of the source has the source's value.
C16_ClobberSemantics ==
    (m_phase = "done") =>
        LET now == Content(m_dest, m_heap)
        IN /\ MergedAs(now.types, m_dest0.types, m_src0.types)
           /\ DOMAIN now.classes
                 = DOMAIN m_dest0.classes \cup DOMAIN m_src0.classes
           /\ \A c \in DOMAIN now.classes :
                 /\ DOMAIN now.classes[c]
                       = NamesAt(m_dest0.classes, c)
                            \cup NamesAt(m_src0.classes, c)
                 /\ ~m_clobber =>
                       \A a \in NamesAt(m_dest0.classes, c) :
                          now.classes[c][a] = m_dest0.classes[c][a]
                 /\ m_clobber =>
                       \A a \in NamesAt(m_src0.classes, c) :
                          now.classes[c][a] = m_src0.classes[c][a]

\* C17: after merge no attribute mapping belongs to a class of the source
\* and to a class of the destination at once, and the source has the content
\* it had before.
C17_Independent ==
    (m_phase = "done") =>
        /\ \A c \in DOMAIN m_dest.classes, k \in DOMAIN m_src.classes :
              m_dest.classes[c].attributes # m_src.classes[k].attributes
        /\ Content(m_src, m_heap) = m_src0

====
